---- MODULE Spec2Model ----
(***************************************************************************)
(* The candidate-search export scripts (scripts/*.py): the multi-query     *)
(* result aggregator get_all_candidates / get_all_candidates_comprehensive *)
(* of the five multi-query scripts, the single-query get_all_candidates of *)
(* export-cvs-to-drive.py, and the callers' check of the returned list.    *)
(***************************************************************************)
EXTENDS Integers, Sequences, FiniteSets, TLC

(***************************************************************************)
(* Bounds of the model.                                                    *)
(***************************************************************************)
\* longest query list (the scripts' literal lists have 9 to 60 entries)
MaxQueries == 2
\* longest "results" list of one response
MaxLen == 2
\* 'per_page' of get-cv-urls-direct.py (250 in the script)
PerPage == 2
\* most pages the Typesense collection has
MaxPages == 2

(***************************************************************************)
(* The scripts.  Each has its own copy of the aggregation loop.            *)
(***************************************************************************)
Local == "export-cvs-local"
Simple == "export-cvs-simple"
Pdf == "download-pdf-cvs"
Direct == "export-all-cvs-direct"
Comprehensive == "export-all-cvs-comprehensive"
Drive == "export-cvs-to-drive"

MultiQuery == {Local, Simple, Pdf, Direct, Comprehensive}
Variants == MultiQuery \cup {Drive}

\* the script that pages through the Typesense collection
GetUrls == "get-cv-urls-direct"
Scripts == Variants \cup {GetUrls}

(***************************************************************************)
(* Candidate records as the search endpoint returns them.  A record is a   *)
(* JSON object with an "id" field (a string, possibly empty or absent) or  *)
(* some other JSON value, on which candidate.get raises.                   *)
(***************************************************************************)
CandidateIds == {"id1", "id2"}
\* candidate.get('id') of a record without the field
NoneId == "None"
\* an "id" field holding the empty string
EmptyId == ""
\* what distinguishes two sightings of one identifier
Contents == {"v1", "v2"}

NonDict == [kind |-> "other", id |-> NoneId, content |-> "v1"]
\* the candidate whose record comes back with a changed content
Resighted == "id1"
DictRecords ==
    {[kind |-> "dict", id |-> i, content |-> "v1"] : i \in CandidateIds}
        \cup {[kind |-> "dict", id |-> Resighted, content |-> c] : c \in Contents}
        \cup {[kind |-> "dict", id |-> i, content |-> "v1"] : i \in {NoneId, EmptyId}}
Records == DictRecords \cup {NonDict}

\* the lists of at most n records
RECURSIVE ListsUpTo(_)
ListsUpTo(n) ==
    IF n = 0 THEN {<<>>}
    ELSE LET shorter == ListsUpTo(n - 1)
         IN  shorter \cup {Append(l, r) : l \in {s \in shorter : Len(s) = n - 1}, r \in Records}

\* HTTP status codes of a response
Statuses == {200, 201, 500}

\* A response: its status, whether response.json() yields an object whose
\* "results" can be iterated, and that list (empty when there is none)
Responses ==
    [status : Statuses, json_ok : {TRUE}, results : ListsUpTo(MaxLen)]
        \cup [status : Statuses, json_ok : {FALSE}, results : {<<>>}]
NoResponse == [status |-> 0, json_ok |-> FALSE, results |-> <<>>]

\* the documents of the Typesense collection
Documents == {[kind |-> "dict", id |-> i, content |-> "v1"] : i \in CandidateIds}
\* the `{}` that hit.get('document', {}) yields for a hit without the field
EmptyDocument == [kind |-> "dict", id |-> NoneId, content |-> "v1"]

\* a hit wrapper of a search answer, with or without its "document" field
Hits ==
    {[kind |-> "hit", has_document |-> TRUE, document |-> d] : d \in Documents}
        \cup {[kind |-> "hit", has_document |-> FALSE, document |-> EmptyDocument]}

\* the lists of at most n hits
RECURSIVE HitsUpTo(_)
HitsUpTo(n) ==
    IF n = 0 THEN {<<>>}
    ELSE LET shorter == HitsUpTo(n - 1)
         IN  shorter \cup {Append(l, h) : l \in {x \in shorter : Len(x) = n - 1}, h \in Hits}

\* The answers to the search for page p: "results" holds the hits; json_ok is
\* FALSE for a body that response.json() or the reading of the hits raises on.
\* The collection ends at page MaxPages at the latest, so that page is not a
\* full one
PageResponses(p) ==
    [status : Statuses, json_ok : {TRUE},
     results : {h \in HitsUpTo(PerPage) : Len(h) = PerPage => p < MaxPages}]
        \cup [status : Statuses, json_ok : {FALSE}, results : {<<>>}]

\* the answers to GET /collections
CollectionsResponses == [status : Statuses, json_ok : BOOLEAN, results : {<<>>}]

\* What the backend does with a request: it answers, it refuses the connection,
\* or it never answers
Idle == "idle"
Answers == "answers"
Refuses == "refuses"
Silent == "silent"
Backends == {Answers, Refuses, Silent}

\* How the processing of one query ended
Ok == "ok"
BadStatus == "status"
NetworkError == "network error"
Timeout == "timeout"
BadBody == "malformed body"
BadRecord == "malformed record"
RequestErrors == {NetworkError, Timeout}
NoOutcome == "none"
FailureKinds == {BadStatus, NetworkError, Timeout, BadBody, BadRecord}

VARIABLES
    variant,            \* the script that runs
    nQueries,           \* len(search_queries) / len(search_strategies)
    pc,                 \* where the run stands
    qi,                 \* queries of the list processed so far
    all_candidates,     \* the insertion-ordered dict, as the sequence of its values
    response,           \* the response being processed (NoResponse when none is)
    unique_candidates,  \* the list get_all_candidates returned
    requests,           \* requests.post calls made
    sleeps,             \* time.sleep calls made by the aggregator
    outcome,            \* how the processing of the current query ended
    failures,           \* queries that ended otherwise than Ok
    bad_records,        \* queries that ended on a malformed record
    results_seen,       \* sum of len(candidates) over the processed queries
    error_logs,         \* error lines the aggregator has printed
    files,              \* CV files written or uploaded by the caller
    index_written,      \* the index / summary file has been written
    ei,                 \* candidates the caller's loop has gone through
    failed_exports,     \* the caller's failure counter
    candidate_case,     \* export-cvs-to-drive.py: the combined_text of the candidate taken last
    fatal_log,          \* what main printed for an exception that reached it
    backend,            \* what the backend does with the pending request
    page,               \* the page get-cv-urls-direct.py asks for
    no_pdf_url,         \* download-pdf-cvs.py: candidates without a PDF link
    index_lines,        \* the candidates that got a line in the index / summary
    attempts,           \* the writes, uploads and downloads of the caller's loop
    download_input,     \* download_pdf: what the call meets
    download_result     \* download_pdf: what the call returned and left on disk

vars == <<variant, nQueries, pc, qi, all_candidates, response, unique_candidates,
          requests, sleeps, outcome, failures, bad_records, results_seen, error_logs,
          files, index_written, ei, failed_exports, candidate_case, fatal_log, backend, page,
          no_pdf_url, index_lines, attempts, download_input, download_result>>

\* the variables the search leaves alone
loopVars == <<no_pdf_url, index_lines, attempts>>
downloadVars == <<download_input, download_result>>
exportVars == <<ei, failed_exports, candidate_case, fatal_log, page, loopVars, downloadVars>>

\* the variables the caller's loop and main leave alone
searchVars == <<variant, nQueries, qi, all_candidates, response, unique_candidates, requests,
                sleeps, outcome, failures, bad_records, results_seen, error_logs, backend>>

(***************************************************************************)
(* The dict all_candidates.  Python dicts keep insertion order and an      *)
(* assignment to an existing key keeps the key's position.                 *)
(***************************************************************************)
Keys(d) == {d[i].id : i \in DOMAIN d}

KeyList(d) == [i \in DOMAIN d |-> d[i].id]

Lookup(d, k) == d[CHOOSE i \in DOMAIN d : d[i].id = k]

\* a list in place of the dict: every store appends
DictSetAppend(d, rec) == Append(d, rec)

\* a store to an existing key moves the key to the end
DictSetMoveToEnd(d, rec) ==
    Append(SelectSeq(d, LAMBDA r : r.id # rec.id), rec)

\* all_candidates[candidate_id] = candidate
DictSet(d, rec) ==
    IF rec.id \in Keys(d)
    THEN [i \in DOMAIN d |-> IF d[i].id = rec.id THEN rec ELSE d[i]]
    ELSE Append(d, rec)

\* list(all_candidates.values())
Values(d) == d

\* `if candidate_id`
Truthy(id) == id \notin {NoneId, EmptyId}

\* the scripts that test `candidate_id not in all_candidates` before the store
FirstWins(v) == v \in {Pdf, Direct, Comprehensive}

\* the dict created anew at each store
MergeOneReset(v, d, rec) == IF Truthy(rec.id) THEN <<rec>> ELSE d

\* the store without the `if candidate_id` test
MergeOneNoIdCheck(v, d, rec) ==
    IF FirstWins(v)
    THEN IF rec.id \notin Keys(d) THEN DictSet(d, rec) ELSE d
    ELSE DictSet(d, rec)

\* the body of `for candidate in candidates` for a JSON object
MergeOne(v, d, rec) ==
    IF FirstWins(v)
    THEN IF Truthy(rec.id) /\ rec.id \notin Keys(d) THEN DictSet(d, rec) ELSE d
    ELSE IF Truthy(rec.id) THEN DictSet(d, rec) ELSE d

\* the loop left after its first record
MergeFirstOnly(v, d, results) ==
    IF results = <<>> THEN [dict |-> d, raised |-> FALSE]
    ELSE IF Head(results).kind # "dict" THEN [dict |-> d, raised |-> TRUE]
    ELSE [dict |-> MergeOne(v, d, Head(results)), raised |-> FALSE]

\* a try block around each record: a malformed record is passed over
RECURSIVE MergeResultsSkipBad(_, _, _)
MergeResultsSkipBad(v, d, results) ==
    IF results = <<>> THEN [dict |-> d, raised |-> FALSE]
    ELSE IF Head(results).kind # "dict" THEN MergeResultsSkipBad(v, d, Tail(results))
    ELSE MergeResultsSkipBad(v, MergeOne(v, d, Head(results)), Tail(results))

\* `for candidate in candidates`: candidate.get raises on a record that is no
\* JSON object, which leaves the loop with what was stored before it
RECURSIVE MergeResults(_, _, _)
MergeResults(v, d, results) ==
    IF results = <<>> THEN [dict |-> d, raised |-> FALSE]
    ELSE IF Head(results).kind # "dict" THEN [dict |-> d, raised |-> TRUE]
    ELSE MergeResults(v, MergeOne(v, d, Head(results)), Tail(results))

\* no status test at all
StatusOkAny(v, status) == TRUE

\* `if response.status_code == 200` of the multi-query scripts;
\* response.raise_for_status() of export-cvs-to-drive.py raises from 400 on
StatusOk(v, status) ==
    IF v = Drive THEN status < 400 ELSE status = 200

\* the last entry of the list is left out
HasNextSkipLast(i, n) == i + 1 < n

\* `return` inside the loop: only the first entry is processed
HasNextFirstOnly(i, n) == i < n /\ i < 1

\* one iteration too many
HasNextInclusive(i, n) == i <= n

\* `for query in search_queries`
HasNext(i, n) == i < n

\* the same query again
SameQuery(i) == i

\* the loop variable moves on to the next entry of the list
NextQuery(i) == i + 1

\* the scripts whose status test has an else branch that prints the status
LogsStatus(v) == v \in {Local, Direct, Comprehensive}

\* no except clause: the exception leaves the function
AfterExceptionPropagate(v) == "raised"

\* `except Exception`: `continue` in the loops, `return []` in export-cvs-to-drive.py
AfterException(v) == IF v = Drive THEN "returned" ELSE "loop"

\* the scripts whose caller ends with an index or summary file
HasIndex(v) == v \in {Local, Pdf, Direct, Comprehensive}

\* no test of the returned list
IsEmptyNever(candidates) == FALSE

\* `if not candidates` of the callers
IsEmpty(candidates) == Len(candidates) = 0

\* the index file of export-cvs-local.py is written outside any try block
IndexInTry(v) == v # Local

\* What the caller's loop can meet in one candidate: the display name (a string,
\* or present but null), the profile text (a string, null, or a truthy value of
\* another type), whether a PDF link is found in a profile text that is a
\* string (download-pdf-cvs.py), whether the write / upload / download works,
\* and the same for the second upload of export-cvs-to-drive.py
NullName == [kind |-> "null", chars |-> <<>>]
NameKinds ==
    {[kind |-> "str", chars |-> <<"a", " ", "b">>],
     [kind |-> "str", chars |-> <<"a", "_", "b">>],
     NullName}
TextKinds == {"str", "null", "badtype"}
ExportCases(v) ==
    [name : NameKinds, text : TextKinds,
     url : IF v = Pdf THEN BOOLEAN ELSE {TRUE},
     io : BOOLEAN,
     io2 : IF v = Drive THEN BOOLEAN ELSE {TRUE}]
NoCase == [name |-> NullName, text |-> "none", url |-> FALSE, io |-> FALSE, io2 |-> FALSE]

\* what is kept of the case the loop met last: for export-cvs-to-drive.py
\* the kind of combined_text, which decides whether create_pdf_cv raises and
\* cannot be read off the counters; nothing for the other scripts, where the
\* counters, the index lines and the attempts tell what happened
Met(v, c) == IF v = Drive THEN [NoCase EXCEPT !.text = c.text] ELSE NoCase

\* str.isalnum() on the characters that occur
Alnum == {"a", "b", "0", "1", "2", "3", "4", "5", "6", "7", "8", "9"}

\* str.strip() for blanks
RECURSIVE Strip(_)
Strip(chars) ==
    IF chars = <<>> THEN <<>>
    ELSE IF Head(chars) = " " THEN Strip(Tail(chars))
    ELSE IF chars[Len(chars)] = " " THEN Strip(SubSeq(chars, 1, Len(chars) - 1))
    ELSE chars

\* str.replace(' ', '_')
Underscored(chars) == [i \in 1..Len(chars) |-> IF chars[i] = " " THEN "_" ELSE chars[i]]

\* safe_name: "".join(c for c in name if c.isalnum() or c in (' ', '-', '_'))
\* .strip(), then .replace(' ', '_') except in export-cvs-to-drive.py;
\* sanitize_filename of download-pdf-cvs.py drops the characters that are
\* invalid in a file name and replaces the blanks
SafeName(v, chars) ==
    IF v = Pdf
    THEN Underscored(SelectSeq(chars,
             LAMBDA ch : ch \notin {"<", ">", ":", "\"", "/", "\\", "|", "?", "*"}))
    ELSE LET kept == Strip(SelectSeq(chars, LAMBDA ch : ch \in Alnum \cup {" ", "-", "_"}))
         IN  IF v = Drive THEN kept ELSE Underscored(kept)

\* the decimal digits of i, padded with zeros to `width` characters
Padded(i, width) ==
    LET digit == <<"0", "1", "2", "3", "4", "5", "6", "7", "8", "9">>
        value == [k \in 1..width |-> "0"]
    IN  [value EXCEPT ![width] = digit[i + 1]]

\* the scripts whose file names start with the number of the candidate
Numbered(v) == v \in {Local, Pdf, Direct, Comprehensive}
NumberWidth(v) == IF v \in {Local, Pdf} THEN 3 ELSE 4

\* the file name without the number of the candidate
FileNameUnnumbered(v, i, safe, id, ext) == safe \o <<"_CV", ext>>

\* filename = f"{i:03d}_{safe_name}_CV.txt" (:04d in the two "all" exporters,
\* f"{i:03d}_{safe_name}_{candidate_id}.pdf" in download-pdf-cvs.py,
\* f"{safe_name}_CV.txt" / ".pdf" in the two scripts that do not number)
FileName(v, i, safe, id, ext) ==
    IF ~Numbered(v) THEN safe \o <<"_CV", ext>>
    ELSE IF v = Pdf THEN Padded(i, NumberWidth(v)) \o <<"_">> \o safe \o <<"_", id, ext>>
    ELSE Padded(i, NumberWidth(v)) \o <<"_">> \o safe \o <<"_CV", ext>>

\* "000_INDEX.txt", "0000_COMPLETE_INDEX.txt", "0000_COMPREHENSIVE_INDEX.txt",
\* "000_DOWNLOAD_SUMMARY.txt"
IndexName(v) ==
    Padded(0, NumberWidth(v)) \o <<"_">> \o
        (IF v = Local THEN <<"INDEX", ".txt">>
         ELSE IF v = Pdf THEN <<"DOWNLOAD", "_", "SUMMARY", ".txt">>
         ELSE IF v = Direct THEN <<"COMPLETE", "_", "INDEX", ".txt">>
         ELSE <<"COMPREHENSIVE", "_", "INDEX", ".txt">>)

\* one write, upload or download of the loop: the candidate, the file, the result
Attempt(i, file, ok) == [i |-> i, file |-> file, ok |-> ok]

Raises ==
    [raises |-> TRUE, ok |-> 0, failed |-> 0, no_url |-> 0, indexed |-> FALSE,
     attempts |-> <<>>]
Counted(ok, failed, no_url, indexed, tried) ==
    [raises |-> FALSE, ok |-> ok, failed |-> failed, no_url |-> no_url,
     indexed |-> indexed, attempts |-> tried]

\* an index line for a candidate whose write failed, in every script
IndexedOnFailureAlways(v) == HasIndex(v)

\* no index line for a candidate whose upload failed
IndexedOnFailureNever(v) == FALSE

\* The index line of a candidate whose write or upload failed: the two local
\* exporters add it inside the try, after the write, so it is skipped; in
\* export-all-cvs-direct.py upload_to_drive returns None and the line is added
IndexedOnFailure(v) == v = Direct

\* the candidate without a PDF link passed over without being counted
SkippedCandidateUncounted(v) == Counted(0, 0, 0, TRUE, <<>>)

\* `if not pdf_url: no_pdf_url += 1; summary_lines.append(...); continue`
SkippedCandidate(v) == Counted(0, 0, 1, TRUE, <<>>)

\* the TXT upload given up after a failed PDF upload
BothFormatsStopOnFailure(i, pdf, txt, io, io2) ==
    IF io THEN <<Attempt(i, pdf, io), Attempt(i, txt, io2)>> ELSE <<Attempt(i, pdf, io)>>

\* format_type 'both': the PDF upload, then the TXT upload, each counted as
\* it ends
BothFormats(i, pdf, txt, io, io2) == <<Attempt(i, pdf, io), Attempt(i, txt, io2)>>

\* The body of the caller's loop for candidate number i: whether an exception
\* leaves the loop, what is added to the counters, whether a line is added to
\* the index or summary, and the writes / uploads / downloads attempted
ExportOne(v, i, rec, c) ==
    IF rec.kind # "dict" THEN Raises
    ELSE IF v = Pdf
    THEN IF c.text # "str" THEN Raises
         ELSE IF ~c.url THEN SkippedCandidate(v)
         ELSE IF c.name.kind = "null" THEN Raises
         ELSE LET file == FileName(v, i, SafeName(v, c.name.chars), rec.id, ".pdf")
              IN  IF c.io THEN Counted(1, 0, 0, TRUE, <<Attempt(i, file, TRUE)>>)
                  ELSE Counted(0, 1, 0, TRUE, <<Attempt(i, file, FALSE)>>)
    ELSE IF c.name.kind = "null" THEN Raises
    ELSE IF c.text = "badtype" THEN Counted(0, 1, 0, FALSE, <<>>)
    ELSE IF v = Drive
    THEN LET safe == SafeName(v, c.name.chars)
             tried == BothFormats(i, FileName(v, i, safe, rec.id, ".pdf"),
                                  FileName(v, i, safe, rec.id, ".txt"), c.io, c.io2)
         IN  Counted(Len(SelectSeq(tried, LAMBDA a : a.ok)),
                     Len(SelectSeq(tried, LAMBDA a : ~a.ok)), 0, FALSE, tried)
    ELSE LET file == FileName(v, i, SafeName(v, c.name.chars), rec.id, ".txt")
         IN  IF c.io THEN Counted(1, 0, 0, HasIndex(v), <<Attempt(i, file, TRUE)>>)
             ELSE Counted(0, 1, 0, IndexedOnFailure(v), <<Attempt(i, file, FALSE)>>)

\* every requests.post of the exporters carries timeout=15 or timeout=30; the
\* requests.get calls of get-cv-urls-direct.py carry none
HasTimeout(v) == v # GetUrls

\* the request raises `kind` against this backend
RaisedBy(v, b, kind) ==
    \/ kind = NetworkError /\ b = Refuses
    \/ kind = Timeout /\ b = Silent /\ HasTimeout(v)

\* the last hit of the page is left out
DocumentsButLast(hits) ==
    [i \in 1..(IF Len(hits) = 0 THEN 0 ELSE Len(hits) - 1) |->
        IF hits[i].has_document THEN hits[i].document ELSE EmptyDocument]

\* `for hit in hits: candidate = hit.get('document', {})`, in hit order
DocumentsOf(hits) ==
    [i \in 1..Len(hits) |->
        IF hits[i].has_document THEN hits[i].document ELSE EmptyDocument]

\* the status branch returning nothing
AfterBadStatusEmpty(collected) == <<>>

\* a page answered with another status than 200: `break`, then
\* `return all_candidates`
AfterBadStatus(collected) == collected

\* an exception anywhere in query_typesense_direct: `return []`
AfterRaise(collected) == <<>>

\* a page is asked for again whenever it held a hit
MorePagesWhileHits(n) == n > 0

\* `if not hits: break` and `if len(hits) < search_params['per_page']: break`
MorePages(n) == n > 0 /\ ~(n < PerPage)

\* what main prints for an exception that reaches it
NoLog == "none"
TraceLog == "message and traceback"
MessageLog == "message only"

\* main wraps the run in try / except Exception
MainCatches(v) == v # GetUrls

\* the except clause of main calls traceback.print_exc()
LogsTrace(v) == v # Drive

(***************************************************************************)
(* download-pdf-cvs.py, download_pdf(url, filename): one GET, the test of   *)
(* the content type, the write of the file and the test of its size, all   *)
(* inside one try whose except clause returns False.                       *)
(***************************************************************************)
\* `os.path.getsize(filepath) < 1000`
MinPdfSize == 1000

\* response.headers.get('content-type', ''): "" stands for a missing header
ContentTypes == {"application/pdf", "application/octet-stream", "APPLICATION/PDF",
                 "application/pdf; charset=binary", "text/html", ""}

\* .lower(), on the content types above
Lower(t) == IF t = "APPLICATION/PDF" THEN "application/pdf" ELSE t

\* the list the lowered content type is looked up in
PdfTypes == {"application/pdf", "application/octet-stream"}

\* the sizes of response.content that the size test tells apart
Sizes == {0, MinPdfSize - 1, MinPdfSize, MinPdfSize + 1}

\* what one call meets: the request (answered, raising, or answered with an
\* error status that raise_for_status raises on), the content type, the size
\* of the body, what open / f.write do, and whether os.remove works
DownloadInputs ==
    [request : {"ok", "raises", "http_error"},
     content_type : ContentTypes,
     size : Sizes,
     write : {"ok", "open_fails", "write_fails"},
     remove_ok : BOOLEAN]

NoDownload == [request |-> "none", content_type |-> "", size |-> 0, write |-> "none",
               remove_ok |-> FALSE]

\* what a call ends with: the value returned, whether an exception left the
\* function, whether a file of that name is on disk afterwards, and the
\* return statement taken
Returned(value, file, reason) ==
    [returned |-> value, raises |-> FALSE, file |-> file, reason |-> reason]

NoResult == [returned |-> FALSE, raises |-> FALSE, file |-> FALSE, reason |-> "none"]

\* a size test that lets every file through
TooSmallNever(size) == FALSE

\* `if os.path.getsize(filepath) < 1000`
TooSmall(size) == size < MinPdfSize

DownloadPdf(d) ==
    IF d.request # "ok" THEN Returned(FALSE, FALSE, "exception")
    ELSE IF Lower(d.content_type) \notin PdfTypes THEN Returned(FALSE, FALSE, "content_type")
    ELSE IF d.write = "open_fails" THEN Returned(FALSE, FALSE, "exception")
    ELSE IF d.write = "write_fails" THEN Returned(FALSE, TRUE, "exception")
    ELSE IF TooSmall(d.size)
    THEN IF d.remove_ok
         THEN Returned(FALSE, FALSE, "too_small")
         ELSE Returned(FALSE, TRUE, "exception")
    ELSE Returned(TRUE, TRUE, "downloaded")

(***************************************************************************)
(* Initial state: a script is started; its query list has nQueries entries *)
(* (export-cvs-to-drive.py sends the single query '*').                    *)
(***************************************************************************)
Init ==
    /\ variant \in Scripts
    /\ nQueries \in 0..MaxQueries
    /\ variant = Drive => nQueries = 1
    /\ variant = GetUrls => nQueries = 0
    /\ pc = IF variant = GetUrls THEN "collections" ELSE "loop"
    /\ qi = 0
    /\ all_candidates = <<>>
    /\ response = NoResponse
    /\ unique_candidates = <<>>
    /\ requests = 0
    /\ sleeps = 0
    /\ outcome = NoOutcome
    /\ failures = 0
    /\ bad_records = 0
    /\ results_seen = 0
    /\ error_logs = 0
    /\ files = 0
    /\ index_written = FALSE
    /\ ei = 0
    /\ failed_exports = 0
    /\ candidate_case = NoCase
    /\ fatal_log = NoLog
    /\ backend = Idle
    /\ page = 1
    /\ no_pdf_url = 0
    /\ index_lines = <<>>
    /\ attempts = <<>>
    /\ download_input = NoDownload
    /\ download_result = NoResult

\* requests.post(...) is called for the next query
IssueRequest ==
    /\ UNCHANGED exportVars
    /\ pc = "loop"
    /\ HasNext(qi, nQueries)
    /\ pc' = "wait"
    /\ requests' = requests + 1
    /\ backend' \in Backends
    /\ outcome' = NoOutcome
    /\ UNCHANGED <<variant, nQueries, qi, all_candidates, response, unique_candidates,
                   sleeps, failures, bad_records, results_seen, files, index_written, error_logs>>

\* requests.post raises: connection error or timeout
RequestFails ==
    /\ UNCHANGED exportVars
    /\ pc = "wait"
    /\ \E kind \in RequestErrors :
          /\ RaisedBy(variant, backend, kind)
          /\ outcome' = kind
    /\ backend' = Idle
    /\ failures' = failures + 1
    /\ pc' = "except"
    /\ UNCHANGED bad_records
    /\ UNCHANGED <<variant, nQueries, qi, all_candidates, response, unique_candidates,
                   requests, sleeps, results_seen, files, index_written, error_logs>>

\* requests.post returns a response
ReceiveResponse ==
    /\ UNCHANGED exportVars
    /\ pc = "wait"
    /\ backend = Answers
    /\ backend' = Idle
    /\ \E r \in Responses : response' = r
    /\ pc' = "process"
    /\ UNCHANGED <<variant, nQueries, qi, all_candidates, unique_candidates, requests,
                   sleeps, outcome, failures, bad_records, results_seen, files, index_written, error_logs>>

\* the multi-query scripts: the status test and the merge of the results
ProcessResponse ==
    /\ UNCHANGED exportVars
    /\ UNCHANGED backend
    /\ pc = "process"
    /\ variant \in MultiQuery
    /\ IF ~StatusOk(variant, response.status)
       THEN /\ pc' = "sleep"
            /\ outcome' = BadStatus
            /\ failures' = failures + 1
            /\ error_logs' = IF LogsStatus(variant) THEN error_logs + 1 ELSE error_logs
            /\ UNCHANGED <<all_candidates, results_seen, bad_records>>
       ELSE IF ~response.json_ok
       THEN /\ pc' = "except"
            /\ outcome' = BadBody
            /\ failures' = failures + 1
            /\ UNCHANGED <<all_candidates, results_seen, bad_records, error_logs>>
       ELSE LET m == MergeResults(variant, all_candidates, response.results)
            IN  /\ all_candidates' = m.dict
                /\ results_seen' = results_seen + Len(response.results)
                /\ pc' = IF m.raised THEN "except" ELSE "sleep"
                /\ outcome' = IF m.raised THEN BadRecord ELSE Ok
                /\ failures' = IF m.raised THEN failures + 1 ELSE failures
                /\ bad_records' = IF m.raised THEN bad_records + 1 ELSE bad_records
                /\ UNCHANGED error_logs
    /\ UNCHANGED <<variant, nQueries, qi, response, unique_candidates, requests, sleeps,
                   files, index_written>>

\* export-cvs-to-drive.py: raise_for_status, json, return data.get('results', [])
ProcessSingle ==
    /\ UNCHANGED exportVars
    /\ UNCHANGED backend
    /\ pc = "process"
    /\ variant = Drive
    /\ IF ~StatusOk(variant, response.status)
       THEN /\ pc' = "except"
            /\ outcome' = BadStatus
            /\ failures' = failures + 1
            /\ UNCHANGED <<qi, response, unique_candidates, results_seen, bad_records>>
       ELSE IF ~response.json_ok
       THEN /\ pc' = "except"
            /\ outcome' = BadBody
            /\ failures' = failures + 1
            /\ UNCHANGED <<qi, response, unique_candidates, results_seen, bad_records>>
       ELSE /\ unique_candidates' = response.results
            /\ results_seen' = results_seen + Len(response.results)
            /\ pc' = "returned"
            /\ qi' = NextQuery(qi)
            /\ outcome' = Ok
            /\ UNCHANGED <<failures, bad_records>>
            /\ response' = NoResponse
    /\ UNCHANGED <<variant, nQueries, all_candidates, requests, sleeps, files, index_written, error_logs>>

\* time.sleep(...) at the end of the try block, then the next query
Sleep ==
    /\ UNCHANGED exportVars
    /\ UNCHANGED backend
    /\ pc = "sleep"
    /\ sleeps' = sleeps + 1
    /\ qi' = NextQuery(qi)
    /\ pc' = "loop"
    /\ response' = NoResponse
    /\ UNCHANGED <<variant, nQueries, all_candidates, unique_candidates, requests,
                   outcome, failures, bad_records, results_seen, files, index_written, error_logs>>

\* the except clause: the error is printed; the loops go on with the next query,
\* export-cvs-to-drive.py returns []
HandleException ==
    /\ UNCHANGED exportVars
    /\ UNCHANGED backend
    /\ pc = "except"
    /\ pc' = AfterException(variant)
    /\ qi' = NextQuery(qi)
    /\ response' = NoResponse
    /\ unique_candidates' = <<>>
    /\ error_logs' = error_logs + 1
    /\ UNCHANGED <<variant, nQueries, all_candidates, requests, sleeps, outcome, failures,
                   bad_records, results_seen, files, index_written>>

\* unique_candidates = list(all_candidates.values()); return unique_candidates
ReturnCandidates ==
    /\ UNCHANGED exportVars
    /\ UNCHANGED backend
    /\ pc = "loop"
    /\ variant \in MultiQuery
    /\ ~HasNext(qi, nQueries)
    /\ unique_candidates' = Values(all_candidates)
    /\ pc' = "returned"
    /\ UNCHANGED <<variant, nQueries, qi, all_candidates, response, requests, sleeps,
                   outcome, failures, bad_records, results_seen, files, index_written, error_logs>>

\* the caller: `candidates = self.get_all_candidates(); if not candidates: return`
CheckCandidates ==
    /\ UNCHANGED exportVars
    /\ UNCHANGED backend
    /\ pc = "returned"
    /\ pc' = IF IsEmpty(unique_candidates) THEN "done" ELSE "export"
    /\ UNCHANGED <<variant, nQueries, qi, all_candidates, response, unique_candidates,
                   requests, sleeps, outcome, failures, bad_records, results_seen, files, index_written, error_logs>>

\* one turn of the caller's `for i, candidate in enumerate(candidates, 1)`
ExportCandidate ==
    /\ pc = "export"
    /\ variant \in Variants
    /\ ei < Len(unique_candidates)
    /\ \E c \in ExportCases(variant) :
          LET i == ei + 1
              r == ExportOne(variant, i, unique_candidates[i], c)
          IN  /\ candidate_case' = Met(variant, c)
              /\ IF r.raises
                 THEN /\ pc' = "fatal"
                      /\ UNCHANGED <<ei, files, failed_exports, loopVars>>
                 ELSE /\ pc' = "export"
                      /\ ei' = i
                      /\ files' = files + r.ok
                      /\ failed_exports' = failed_exports + r.failed
                      /\ no_pdf_url' = no_pdf_url + r.no_url
                      /\ index_lines' =
                             IF r.indexed THEN Append(index_lines, i) ELSE index_lines
                      /\ attempts' = attempts \o r.attempts
    /\ UNCHANGED <<index_written, fatal_log, page, downloadVars>>
    /\ UNCHANGED searchVars

\* after the loop: the index / summary file, whose write or upload may fail,
\* and the final report
FinishExport ==
    /\ pc = "export"
    /\ variant \in Variants
    /\ ei = Len(unique_candidates)
    /\ \E written \in BOOLEAN :
          IF HasIndex(variant) /\ ~written /\ ~IndexInTry(variant)
          THEN /\ pc' = "fatal"
               /\ UNCHANGED index_written
          ELSE /\ pc' = "done"
               /\ index_written' = (written /\ HasIndex(variant))
    /\ UNCHANGED <<ei, files, failed_exports, candidate_case, fatal_log, page, loopVars, downloadVars>>
    /\ UNCHANGED searchVars

\* an exception has left export_all_cvs: the except clause of main, if any
MainExcept ==
    /\ pc = "fatal"
    /\ IF MainCatches(variant)
       THEN /\ pc' = "ended"
            /\ fatal_log' = IF LogsTrace(variant) THEN TraceLog ELSE MessageLog
       ELSE /\ pc' = "unhandled"
            /\ UNCHANGED fatal_log
    /\ UNCHANGED <<ei, files, failed_exports, candidate_case, index_written, page, loopVars, downloadVars>>
    /\ UNCHANGED searchVars

(***************************************************************************)
(* get-cv-urls-direct.py: query_typesense_direct and main.                 *)
(***************************************************************************)
tsLocals == <<variant, nQueries, qi, sleeps, bad_records, results_seen,
              files, index_written, ei, failed_exports, candidate_case, fatal_log, loopVars,
              downloadVars>>

\* requests.get(f"{TYPESENSE_URL}/collections", headers=headers)
QueryCollections ==
    /\ pc = "collections"
    /\ pc' = "collections_wait"
    /\ requests' = requests + 1
    /\ backend' \in Backends
    /\ UNCHANGED <<all_candidates, unique_candidates, failures, error_logs, page,
                   response, outcome>>
    /\ UNCHANGED tsLocals

\* a requests.get raises: the except clause prints the error and returns []
QueryRaises ==
    /\ pc \in {"collections_wait", "page_wait"}
    /\ \E kind \in RequestErrors :
          /\ RaisedBy(variant, backend, kind)
          /\ outcome' = kind
    /\ backend' = Idle
    /\ failures' = failures + 1
    /\ error_logs' = error_logs + 1
    /\ unique_candidates' = AfterRaise(all_candidates)
    /\ pc' = "returned"
    /\ UNCHANGED <<all_candidates, requests, page, response>>
    /\ UNCHANGED tsLocals

\* the answer to GET /collections: anything but 200 returns [], a body that is
\* no list of collections raises into the except clause
ReceiveCollections ==
    /\ pc = "collections_wait"
    /\ backend = Answers
    /\ backend' = Idle
    /\ \E r \in CollectionsResponses :
          IF r.status = 200 /\ r.json_ok
          THEN /\ pc' = "page"
               /\ UNCHANGED <<failures, error_logs>>
          ELSE /\ pc' = "returned"
               /\ failures' = failures + 1
               /\ error_logs' = error_logs + 1
    /\ UNCHANGED <<all_candidates, unique_candidates, requests, page, response, outcome>>
    /\ UNCHANGED tsLocals

\* `while True`: requests.get(.../documents/search, params=search_params)
QueryPage ==
    /\ pc = "page"
    /\ pc' = "page_wait"
    /\ requests' = requests + 1
    /\ backend' \in Backends
    /\ response' = NoResponse
    /\ outcome' = NoOutcome
    /\ UNCHANGED <<all_candidates, unique_candidates, failures, error_logs, page>>
    /\ UNCHANGED tsLocals

\* the answer to the search for one page
ReceivePage ==
    /\ pc = "page_wait"
    /\ backend = Answers
    /\ backend' = Idle
    /\ \E r \in PageResponses(page) :
          /\ response' = r
          /\ IF r.status # 200
             THEN /\ pc' = "returned"
                  /\ outcome' = BadStatus
                  /\ unique_candidates' = AfterBadStatus(all_candidates)
                  /\ failures' = failures + 1
                  /\ error_logs' = error_logs + 1
                  /\ UNCHANGED <<all_candidates, page>>
             ELSE IF ~r.json_ok
             THEN /\ pc' = "returned"
                  /\ outcome' = BadBody
                  /\ unique_candidates' = AfterRaise(all_candidates)
                  /\ failures' = failures + 1
                  /\ error_logs' = error_logs + 1
                  /\ UNCHANGED <<all_candidates, page>>
             ELSE /\ all_candidates' = all_candidates \o DocumentsOf(r.results)
                  /\ outcome' = Ok
                  /\ UNCHANGED <<failures, error_logs>>
                  /\ IF MorePages(Len(r.results))
                     THEN /\ pc' = "page"
                          /\ page' = page + 1
                          /\ UNCHANGED unique_candidates
                     ELSE /\ pc' = "returned"
                          /\ unique_candidates' = all_candidates'
                          /\ UNCHANGED page
    /\ UNCHANGED requests
    /\ UNCHANGED tsLocals

\* main: extract_cv_urls, which raises on a cv_url that is no string, and
\* save_cv_urls, which writes the file when there is something to write
ExtractCvUrls ==
    /\ pc = "export"
    /\ variant = GetUrls
    /\ \E raises \in BOOLEAN, n \in 0..Len(unique_candidates), saved \in BOOLEAN :
          IF raises
          THEN /\ pc' = "fatal"
               /\ UNCHANGED <<ei, files>>
          ELSE /\ pc' = "done"
               /\ ei' = Len(unique_candidates)
               /\ files' = IF n > 0 /\ saved THEN 1 ELSE 0
    /\ UNCHANGED <<index_written, failed_exports, candidate_case, fatal_log, page, loopVars,
                   downloadVars>>
    /\ UNCHANGED searchVars

Next ==
    \/ IssueRequest
    \/ RequestFails
    \/ ReceiveResponse
    \/ ProcessResponse
    \/ ProcessSingle
    \/ Sleep
    \/ HandleException
    \/ ReturnCandidates
    \/ CheckCandidates
    \/ ExportCandidate
    \/ FinishExport
    \/ MainExcept
    \/ QueryCollections
    \/ QueryRaises
    \/ ReceiveCollections
    \/ QueryPage
    \/ ReceivePage
    \/ ExtractCvUrls

Spec == Init /\ [][Next]_vars

(***************************************************************************)
(* download_pdf on its own: a call of download-pdf-cvs.py with any of the  *)
(* inputs above.                                                           *)
(***************************************************************************)
InitDownload ==
    /\ variant = Pdf
    /\ nQueries = 0
    /\ pc = "download"
    /\ qi = 0
    /\ all_candidates = <<>>
    /\ response = NoResponse
    /\ unique_candidates = <<>>
    /\ requests = 0
    /\ sleeps = 0
    /\ outcome = NoOutcome
    /\ failures = 0
    /\ bad_records = 0
    /\ results_seen = 0
    /\ error_logs = 0
    /\ files = 0
    /\ index_written = FALSE
    /\ ei = 0
    /\ failed_exports = 0
    /\ candidate_case = NoCase
    /\ fatal_log = NoLog
    /\ backend = Idle
    /\ page = 1
    /\ no_pdf_url = 0
    /\ index_lines = <<>>
    /\ attempts = <<>>
    /\ download_input \in DownloadInputs
    /\ download_result = NoResult

\* self.download_pdf(pdf_url, filename)
CallDownloadPdf ==
    /\ pc = "download"
    /\ download_result' = DownloadPdf(download_input)
    /\ pc' = "downloaded"
    /\ UNCHANGED <<download_input, ei, files, failed_exports, candidate_case, fatal_log, page,
                   index_written, loopVars>>
    /\ UNCHANGED searchVars

NextDownload == CallDownloadPdf

SpecDownload == InitDownload /\ [][NextDownload]_vars

(***************************************************************************)
(* What the properties below speak of.                                     *)
(***************************************************************************)
\* the run has left the aggregator
Finished == pc \in {"returned", "export", "done", "fatal", "ended", "unhandled"}

\* a step that processes a response of status 200 with a parseable body
MergesResponse ==
    pc = "process" /\ variant \in MultiQuery /\ response.status = 200 /\ response.json_ok

NoDuplicates(seq) == \A i, j \in DOMAIN seq : seq[i] = seq[j] => i = j

HasId(rec) == rec.kind = "dict" /\ rec.id # NoneId /\ rec.id # EmptyId

\* the identifiers of the records of a result list
IdsOf(results) == {results[i].id : i \in {j \in DOMAIN results : HasId(results[j])}}

\* the records of a result list that precede its first record that is no object
ReadablePrefix(results) ==
    LET bad == {i \in DOMAIN results : results[i].kind # "dict"}
    IN  IF bad = {} THEN results
        ELSE SubSeq(results, 1, (CHOOSE i \in bad : \A j \in bad : i <= j) - 1)

\* the identifiers of a result list that are not in `known`, each once, in the
\* order of their first occurrence
RECURSIVE FreshIds(_, _)
FreshIds(known, results) ==
    IF results = <<>> THEN <<>>
    ELSE LET r == Head(results)
         IN  IF HasId(r) /\ r.id \notin known
             THEN <<r.id>> \o FreshIds(known \cup {r.id}, Tail(results))
             ELSE FreshIds(known, Tail(results))

(***************************************************************************)
(* C1.  When an identifier is sighted again, by a later query or later in  *)
(* the same response, the record stored for it stays the one seen first:   *)
(* no step replaces or modifies the record stored under a key.             *)
(* Violated by export-cvs-local.py and export-cvs-simple.py, which store   *)
(* every sighting.                                                         *)
(***************************************************************************)
C1_FirstSightingKept ==
    [][(variant \in Variants) =>
          (\A k \in Keys(all_candidates) :
              /\ k \in Keys(all_candidates')
              /\ Lookup(all_candidates', k) = Lookup(all_candidates, k))]_vars

(***************************************************************************)
(* C2.  In the multi-query aggregators, after every step of the loop and   *)
(* in the returned list, each identifier appears once and the number of    *)
(* aggregated records is at most the sum of the result counts of the       *)
(* queries processed so far.                                               *)
(***************************************************************************)
C2_UniqueAndBounded ==
    variant \in MultiQuery =>
        /\ NoDuplicates(KeyList(all_candidates))
        /\ Len(all_candidates) <= results_seen
        /\ NoDuplicates(KeyList(unique_candidates))
        /\ Len(unique_candidates) <= results_seen

\* the second query's response lists one identifier twice, and it is stored once
C2_Witness ==
    /\ variant \in MultiQuery
    /\ pc = "sleep"
    /\ qi = 1
    /\ Len(response.results) = 2
    /\ \A i \in 1..2 : response.results[i].kind = "dict" /\ response.results[i].id = "id1"
    /\ response.results[1] # response.results[2]
    /\ KeyList(all_candidates) = <<"id1">>

(***************************************************************************)
(* C3 as claimed.  The identifiers of the returned list are the union,     *)
(* over the queries, of the non-empty identifiers of the records of each   *)
(* response: every response of status 200 adds the identifiers of all its  *)
(* records.  Violated when a record that is no object precedes a record    *)
(* with an identifier.                                                     *)
(***************************************************************************)
C3_UnionOfAllRecords ==
    [][/\ MergesResponse =>
            Keys(all_candidates') = Keys(all_candidates) \cup IdsOf(response.results)
       /\ (pc' = "returned" /\ variant \in MultiQuery) =>
            Keys(unique_candidates') = Keys(all_candidates)]_vars

(***************************************************************************)
(* C3 as amended.  The identifiers of the returned list are the union,     *)
(* over the queries whose response has status 200 and a parseable body, of *)
(* the non-empty identifiers of the records that precede the response's    *)
(* first malformed record (of all its records when none is malformed): no  *)
(* other step adds or removes an identifier, and the returned list holds   *)
(* the identifiers of the aggregate.                                       *)
(***************************************************************************)
C3_UnionOfReadableRecords ==
    [][/\ MergesResponse =>
            Keys(all_candidates') =
                Keys(all_candidates) \cup IdsOf(ReadablePrefix(response.results))
       /\ (variant \in Variants /\ ~MergesResponse) =>
            Keys(all_candidates') = Keys(all_candidates)
       /\ (pc' = "returned" /\ variant \in MultiQuery) =>
            Keys(unique_candidates') = Keys(all_candidates)]_vars

\* a response whose second record has an identifier and follows a malformed one
C3_Witness ==
    /\ variant \in MultiQuery
    /\ pc = "except"
    /\ outcome = BadRecord
    /\ Len(response.results) = 2
    /\ response.results[1] = NonDict
    /\ HasId(response.results[2])
    /\ all_candidates = <<>>

(***************************************************************************)
(* C4.  A query whose response has a non-success status (400 and above)    *)
(* adds no entry, the loop goes on to its sleep and the next query, and    *)
(* when the aggregator returns every query of the list has been issued.    *)
(***************************************************************************)
C4_FailedStatusAddsNothing ==
    [][/\ (pc = "process" /\ response.status >= 400) =>
            /\ all_candidates' = all_candidates
            /\ unique_candidates' = <<>>
            /\ variant \in MultiQuery => pc' = "sleep"
       /\ (pc' = "returned" /\ variant \in MultiQuery) =>
            (qi' = nQueries /\ requests' = nQueries)]_vars

\* the first query ended on its status, the second one has merged records
C4_Witness ==
    /\ variant \in MultiQuery
    /\ pc = "sleep"
    /\ qi = 1
    /\ requests = 2
    /\ failures = 1
    /\ sleeps = 1
    /\ outcome = Ok
    /\ all_candidates # <<>>

(***************************************************************************)
(* C5.  Whatever way a query fails, no exception leaves the aggregator,    *)
(* and the aggregator returns only after the last query of the list has    *)
(* been processed.                                                         *)
(***************************************************************************)
C5_FailureNeverStopsLoop ==
    /\ pc # "raised"
    /\ (variant \in MultiQuery /\ Finished) => (qi = nQueries /\ requests = nQueries)

\* both queries of the list raised, and the aggregator returned
C5_Witness ==
    /\ variant \in MultiQuery
    /\ pc = "returned"
    /\ nQueries = 2
    /\ qi = 2
    /\ failures = 2
    /\ sleeps = 0

(***************************************************************************)
(* C6.  A record without identifier (absent or empty) is never stored, and *)
(* it does not keep the other records of its response from being merged:   *)
(* a response of objects adds the identifiers of all its records that have *)
(* one, and adds nothing when none has.                                    *)
(***************************************************************************)
C6_NoIdSkipped ==
    [][(variant \in Variants) =>
         /\ \A k \in Keys(all_candidates') : k # NoneId /\ k # EmptyId
         /\ (MergesResponse /\ ReadablePrefix(response.results) = response.results) =>
              /\ Keys(all_candidates') = Keys(all_candidates) \cup IdsOf(response.results)
              /\ IdsOf(response.results) = {} => all_candidates' = all_candidates
              /\ pc' = "sleep"]_vars

\* a record without identifier came first, the record after it was stored
C6_Witness ==
    /\ variant \in MultiQuery
    /\ pc = "sleep"
    /\ Len(response.results) = 2
    /\ response.results[1].kind = "dict"
    /\ response.results[1].id \in {NoneId, EmptyId}
    /\ HasId(response.results[2])
    /\ all_candidates = <<response.results[2]>>

(***************************************************************************)
(* C7.  With an empty query list no request is issued, no sleep is made    *)
(* and the returned list is empty.                                         *)
(***************************************************************************)
C7_EmptyQueryList ==
    (variant \in Variants /\ nQueries = 0) =>
        /\ requests = 0
        /\ sleeps = 0
        /\ all_candidates = <<>>
        /\ unique_candidates = <<>>
        /\ pc \in {"loop", "returned", "done"}

C7_Witness ==
    /\ variant \in MultiQuery
    /\ nQueries = 0
    /\ pc = "done"

(***************************************************************************)
(* C8 as claimed.  When every query of the list has failed, the returned   *)
(* list is empty and the caller stops: it writes no CV file and no index.  *)
(* Violated when a query fails on a malformed record after records with    *)
(* an identifier.                                                          *)
(***************************************************************************)
C8_AllFailedIsEmpty ==
    (Finished /\ nQueries > 0 /\ failures = nQueries) =>
        /\ unique_candidates = <<>>
        /\ pc # "export"
        /\ files = 0
        /\ ~index_written

(***************************************************************************)
(* C8 as amended.  When every query of the list has failed on its status,  *)
(* on a network error, on a timeout or on an unparseable body, the         *)
(* returned list is empty, no exception leaves the aggregator and the      *)
(* caller stops: it writes no CV file and no index.                        *)
(***************************************************************************)
C8_AllFailedBeforeMergeIsEmpty ==
    /\ pc # "raised"
    /\ (Finished /\ nQueries > 0 /\ failures = nQueries /\ bad_records = 0) =>
            /\ unique_candidates = <<>>
            /\ pc # "export"
            /\ files = 0
            /\ ~index_written

C8_Witness ==
    /\ variant \in MultiQuery
    /\ pc = "done"
    /\ nQueries = 2
    /\ failures = 2
    /\ bad_records = 0
    /\ files = 0

(***************************************************************************)
(* C9.  The returned list is in the order of first insertion: a response   *)
(* appends its fresh identifiers, in the order of their first occurrence,  *)
(* behind the identifiers already stored, and the returned list has the    *)
(* order of the aggregate.                                                 *)
(***************************************************************************)
C9_InsertionOrder ==
    [][/\ MergesResponse =>
            KeyList(all_candidates') =
                KeyList(all_candidates)
                    \o FreshIds(Keys(all_candidates), ReadablePrefix(response.results))
       /\ (pc' = "returned" /\ variant \in MultiQuery) =>
            KeyList(unique_candidates') = KeyList(all_candidates)]_vars

\* the second response lists id2 before the id1 stored by the first query
C9_Witness ==
    /\ variant \in MultiQuery
    /\ pc = "sleep"
    /\ qi = 1
    /\ Len(response.results) = 2
    /\ response.results[1].kind = "dict" /\ response.results[1].id = "id2"
    /\ response.results[2].kind = "dict" /\ response.results[2].id = "id1"
    /\ results_seen = 3
    /\ KeyList(all_candidates) = <<"id1", "id2">>

(***************************************************************************)
(* C10.  Only a response of status exactly 200 is a success: none of the   *)
(* records of a response of any other status enters the aggregate or the   *)
(* returned candidate list.  Violated by export-cvs-to-drive.py, whose     *)
(* raise_for_status() lets every status below 400 pass.                    *)
(***************************************************************************)
C10_Only200IsSuccess ==
    [][(pc = "process" /\ response.status # 200) =>
            /\ all_candidates' = all_candidates
            /\ unique_candidates' = <<>>]_vars

(***************************************************************************)
(* C11.  The list handed from the search to the export holds no two        *)
(* records with the same identifier, also when one response lists an       *)
(* identifier twice.                                                       *)
(* Violated by export-cvs-to-drive.py, whose get_all_candidates returns    *)
(* the result list of the response as it came.                             *)
(***************************************************************************)
C11_NoDuplicateIdsHandedOver ==
    (variant \in Variants /\ Finished) =>
        \A i, j \in DOMAIN unique_candidates :
            (/\ unique_candidates[i].kind = "dict"
             /\ unique_candidates[j].kind = "dict"
             /\ unique_candidates[i].id = unique_candidates[j].id) => i = j

(***************************************************************************)
(* C12.  Every processed query is followed by the inter-request sleep,     *)
(* whatever its outcome: when the loop is about to take the next query,    *)
(* it has slept once for each query behind it.                             *)
(* Violated by every multi-query aggregator: time.sleep is the last        *)
(* statement of the try block, so a query that raised skips it.            *)
(***************************************************************************)
C12_SleepAfterEveryQuery ==
    (variant \in MultiQuery /\ pc = "loop") => sleeps = qi

(***************************************************************************)
(* C13.  Every failed query has produced a log entry before the next       *)
(* query is issued.                                                        *)
(* Violated by download-pdf-cvs.py and export-cvs-simple.py, whose status  *)
(* test has no else branch.                                                *)
(***************************************************************************)
C13_EveryFailureLogged ==
    pc = "loop" => error_logs = failures

(***************************************************************************)
(* C14.  Each query is sent in exactly one request: the number of requests *)
(* is the number of queries taken so far, and a finished search has sent   *)
(* as many requests as the list has queries.                               *)
(***************************************************************************)
C14_OneRequestPerQuery ==
    variant \in Variants =>
        /\ requests = qi + (IF pc \in {"wait", "process", "sleep", "except"} THEN 1 ELSE 0)
        /\ qi <= nQueries
        /\ Finished => requests = nQueries

C14_Witness ==
    /\ pc = "returned"
    /\ nQueries = 2
    /\ requests = 2
    /\ failures = 1

(***************************************************************************)
(* C15.  Requests are issued one at a time and in the order of the list:   *)
(* a request is sent only from the head of the loop, for the query whose   *)
(* index is the number of requests sent before, with no response pending.  *)
(***************************************************************************)
C15_SequentialInOrder ==
    [][(variant \in Variants /\ requests' # requests) =>
            /\ pc = "loop"
            /\ pc' = "wait"
            /\ response = NoResponse
            /\ requests = qi
            /\ requests' = requests + 1
            /\ qi' = qi]_vars

C15_Witness ==
    /\ pc = "wait"
    /\ requests = 2
    /\ qi = 1
    /\ sleeps + failures >= 1

(***************************************************************************)
(* C16.  The aggregate is empty before the first request of a call and     *)
(* only grows: no step removes a key or lowers the number of records.      *)
(***************************************************************************)
C16_GrowsAdditively ==
    /\ [](requests = 0 => all_candidates = <<>>)
    /\ [][/\ Keys(all_candidates) \subseteq Keys(all_candidates')
          /\ Len(all_candidates') >= Len(all_candidates)]_vars

C16_Witness ==
    /\ pc = "sleep"
    /\ qi = 1
    /\ Len(all_candidates) = 2
    /\ Len(response.results) >= 1

(***************************************************************************)
(* C17.  The export starts only after the last query has been processed:   *)
(* while queries remain or a response is pending, nothing has been         *)
(* written or uploaded.                                                    *)
(***************************************************************************)
C17_ExportAfterLastQuery ==
    (variant \in Variants /\ (pc = "export" \/ files > 0 \/ index_written)) =>
        /\ qi = nQueries
        /\ requests = nQueries
        /\ response = NoResponse

C17_Witness ==
    /\ pc = "export"
    /\ variant \in MultiQuery
    /\ nQueries = 2
    /\ Len(unique_candidates) = 2

(***************************************************************************)
(* C18.  During the export a failure met in one candidate (its display     *)
(* name or profile text null or of the wrong type, a write or upload that  *)
(* fails) is counted and the loop goes on: no exception leaves the loop    *)
(* while candidates remain.                                                *)
(* Violated by every exporter: the file name is derived from the display   *)
(* name before the try block is entered (download-pdf-cvs.py has no try    *)
(* block in its loop at all).                                              *)
(***************************************************************************)
C18_CandidateFailureNeverAborts ==
    (variant \in Variants /\ pc \in {"fatal", "ended", "unhandled"}) =>
        ei = Len(unique_candidates)

(***************************************************************************)
(* C19.  An exception that leaves the pipeline is caught in main, which    *)
(* prints it with a full trace: no run ends on an unhandled exception, and *)
(* a run ended by main's except clause has printed the traceback.          *)
(* Violated by export-cvs-to-drive.py, whose except clause prints the      *)
(* message only.                                                           *)
(***************************************************************************)
C19_CaughtInMainWithTrace ==
    /\ pc # "unhandled"
    /\ pc = "ended" => fatal_log = TraceLog

(***************************************************************************)
(* C20.  Every network call is bounded by a timeout, so no run waits for   *)
(* ever: a run that has not ended can always take a step, also when the    *)
(* backend never answers.                                                  *)
(* Violated by get-cv-urls-direct.py, whose two requests.get calls carry   *)
(* no timeout.                                                             *)
(***************************************************************************)
C20_NoCallWaitsForever ==
    pc \notin {"done", "ended", "unhandled"} => ENABLED Next

(***************************************************************************)
(* C22.  When a record of a success response is malformed, the records     *)
(* before it that carry fresh identifiers are in the aggregate, in their   *)
(* order, nothing else of that response is, the processing ends in the     *)
(* except clause, and the except clause goes on to the next query without  *)
(* touching the aggregate.                                                 *)
(***************************************************************************)
C22_PartialMergeOnMalformedRecord ==
    [][/\ (MergesResponse /\ ReadablePrefix(response.results) # response.results) =>
            /\ KeyList(all_candidates') =
                   KeyList(all_candidates)
                       \o FreshIds(Keys(all_candidates), ReadablePrefix(response.results))
            /\ pc' = "except"
            /\ outcome' = BadRecord
       /\ (variant \in MultiQuery /\ pc = "except") =>
            /\ pc' = "loop"
            /\ qi' = qi + 1
            /\ all_candidates' = all_candidates]_vars

\* a fresh record before the malformed one has been merged
C22_Witness ==
    /\ variant \in MultiQuery
    /\ pc = "except"
    /\ outcome = BadRecord
    /\ Len(response.results) = 2
    /\ HasId(response.results[1])
    /\ response.results[2] = NonDict
    /\ KeyList(all_candidates) = <<response.results[1].id>>

(***************************************************************************)
(* C21.  query_typesense_direct asks for the pages 1, 2, 3, ... in turn:   *)
(* the page asked for is the number of page requests sent so far.  Every   *)
(* page answered with 200 appends the document of each of its hits, in hit *)
(* order, to what the earlier pages gave, nothing else changes the list,   *)
(* and a normal end returns that list whole.                               *)
(***************************************************************************)
C21_PagesInOrderAllDocuments ==
    /\ [](variant = GetUrls =>
            /\ pc = "page" => requests = page
            /\ pc = "page_wait" => requests = page + 1
            /\ pc \in {"collections", "collections_wait"} => all_candidates = <<>>)
    /\ [][variant = GetUrls =>
            /\ page' \in {page, page + 1}
            /\ IF pc = "page_wait" /\ outcome' = Ok
               THEN LET hits == response'.results
                    IN  /\ Len(all_candidates') = Len(all_candidates) + Len(hits)
                        /\ \A i \in 1..Len(all_candidates) :
                              all_candidates'[i] = all_candidates[i]
                        /\ \A i \in 1..Len(hits) :
                              all_candidates'[Len(all_candidates) + i] =
                                  IF hits[i].has_document THEN hits[i].document
                                  ELSE EmptyDocument
                        /\ pc' = "returned" => unique_candidates' = all_candidates'
               ELSE all_candidates' = all_candidates]_vars

\* two pages fetched, the same document twice among them
C21_Witness ==
    /\ variant = GetUrls
    /\ pc = "returned"
    /\ outcome = Ok
    /\ page = 2
    /\ Len(unique_candidates) = PerPage + 1
    /\ unique_candidates[1] = unique_candidates[2]

(***************************************************************************)
(* C23.  In query_typesense_direct a page answered with another status     *)
(* than 200 ends the loop and the documents of the pages before it are     *)
(* returned, whereas a request that raises makes the function return the   *)
(* empty list, whatever was collected.                                     *)
(***************************************************************************)
C23_StatusKeepsExceptionDiscards ==
    (variant = GetUrls /\ Finished) =>
        /\ outcome = BadStatus => unique_candidates = all_candidates
        /\ outcome \in RequestErrors => unique_candidates = <<>>

\* page 2 answered with a failure status after a full page 1
C23_Witness ==
    /\ variant = GetUrls
    /\ pc = "returned"
    /\ outcome = BadStatus
    /\ page = 2
    /\ Len(unique_candidates) = PerPage

(***************************************************************************)
(* C24 as claimed.  The pagination loop stops exactly when a page has no   *)
(* hit, a page has fewer than per_page hits, a page is answered with       *)
(* another status than 200, or the request raises.                         *)
(* Violated by a page answered with status 200 and a body that cannot be   *)
(* read: response.json() raises and the except clause ends the loop.       *)
(***************************************************************************)
C24_StopsOnFourOutcomes ==
    [][(variant = GetUrls /\ pc = "page_wait") =>
          (pc' = "returned" <=>
              \/ outcome' \in RequestErrors
              \/ outcome' \notin RequestErrors /\ response'.status # 200
              \/ /\ response'.status = 200
                 /\ response'.json_ok
                 /\ Len(response'.results) < PerPage)]_vars

(***************************************************************************)
(* C24 as amended.  The pagination loop stops exactly when a page has no   *)
(* hit, a page has fewer than per_page hits, a page is answered with       *)
(* another status than 200, the request raises, or the body of a page      *)
(* answered with 200 cannot be read; in every other case it asks for the   *)
(* next page, whatever the page number.                                    *)
(***************************************************************************)
C24_StopsOnFiveOutcomes ==
    [][(variant = GetUrls /\ pc = "page_wait") =>
          /\ pc' = "returned" <=>
                \/ outcome' \in RequestErrors
                \/ outcome' \notin RequestErrors /\ response'.status # 200
                \/ response'.status = 200 /\ ~response'.json_ok
                \/ /\ response'.status = 200
                   /\ response'.json_ok
                   /\ Len(response'.results) < PerPage
          /\ pc' # "returned" => (pc' = "page" /\ page' = page + 1)]_vars

\* page 2 answered with 200 and an unreadable body after a full page 1
C24_Witness ==
    /\ variant = GetUrls
    /\ pc = "returned"
    /\ outcome = BadBody
    /\ response.status = 200
    /\ page = 2
    /\ Len(all_candidates) = PerPage

\* the candidates of the attempts of a list, in its order
CandidatesOf(tried) == [k \in 1..Len(tried) |-> tried[k].i]

(***************************************************************************)
(* C25.  In the two local-file exporters every candidate the loop has gone *)
(* through is counted once, as exported or as failed, and the index holds  *)
(* one line for each candidate whose CV file was written and for no other; *)
(* at the end of export_all_cvs the two counters add up to the number of   *)
(* candidates.                                                             *)
(***************************************************************************)
C25_LocalCountersAndIndex ==
    (variant \in {Local, Comprehensive} /\ pc \in {"export", "done"}) =>
        /\ files + failed_exports = ei
        /\ index_lines = CandidatesOf(SelectSeq(attempts, LAMBDA a : a.ok))
        /\ files = Len(index_lines)
        /\ pc = "done" => ei = Len(unique_candidates)

\* the first candidate failed, the second was written and indexed
C25_Witness ==
    /\ variant \in {Local, Comprehensive}
    /\ pc = "done"
    /\ files = 1
    /\ failed_exports = 1
    /\ index_lines = <<2>>

(***************************************************************************)
(* C26.  In export-all-cvs-direct.py every candidate the loop has gone     *)
(* through is counted once, as uploaded or as failed, and the index holds  *)
(* a line for every candidate whose CV text was built and handed to        *)
(* upload_to_drive, whether the upload worked or not.                      *)
(***************************************************************************)
C26_DirectCountersAndIndex ==
    (variant = Direct /\ pc \in {"export", "done"}) =>
        /\ files + failed_exports = ei
        /\ index_lines = CandidatesOf(attempts)
        /\ pc = "done" => ei = Len(unique_candidates)

\* a failed upload that is in the index
C26_Witness ==
    /\ variant = Direct
    /\ pc = "done"
    /\ failed_exports = 1
    /\ \E k \in DOMAIN attempts : ~attempts[k].ok /\ attempts[k].i \in {index_lines[j] : j \in DOMAIN index_lines}

(***************************************************************************)
(* C27.  In the two local-file exporters no two writes of a run go to the  *)
(* same file name, also for candidates whose names are made the same by    *)
(* the sanitizing, and no CV file has the name of the index file.          *)
(***************************************************************************)
C27_FileNamesDistinct ==
    variant \in {Local, Comprehensive} =>
        /\ \A k, l \in DOMAIN attempts : attempts[k].file = attempts[l].file => k = l
        /\ \A k \in DOMAIN attempts : attempts[k].file # IndexName(variant)

\* two candidates whose file names differ in the number only
C27_Witness ==
    /\ variant = Local
    /\ Len(attempts) = 2
    /\ attempts[1].ok /\ attempts[2].ok
    /\ SubSeq(attempts[1].file, 4, Len(attempts[1].file))
           = SubSeq(attempts[2].file, 4, Len(attempts[2].file))

\* the last characters of a file name
Extension(file) == file[Len(file)]

(***************************************************************************)
(* C29.  In download_all_pdfs, after every candidate gone through, the     *)
(* three counters successful, failed and no_pdf_url add up to the number   *)
(* of candidates gone through and the summary holds one result line for    *)
(* each of them, in order; at the end of the loop the three counters add   *)
(* up to the number of candidates.                                         *)
(***************************************************************************)
C29_ThreeCountersAndSummary ==
    (variant = Pdf /\ pc \in {"export", "done", "fatal", "ended"}) =>
        /\ files + failed_exports + no_pdf_url = ei
        /\ index_lines = [k \in 1..ei |-> k]
        /\ files + failed_exports = Len(attempts)
        /\ pc = "done" => ei = Len(unique_candidates)

\* a candidate without a link and a failed download, both counted and listed
C29_Witness ==
    /\ variant = Pdf
    /\ pc = "done"
    /\ no_pdf_url = 1
    /\ failed_exports = 1
    /\ index_lines = <<1, 2>>

(***************************************************************************)
(* C30.  In export-cvs-to-drive.py with format 'both', a candidate whose   *)
(* PDF is built gets the PDF upload and then the TXT upload, also when the *)
(* PDF upload failed; a candidate whose PDF cannot be built gets no upload *)
(* and one failure; the two counters never add up to more than twice the   *)
(* number of candidates gone through.                                      *)
(***************************************************************************)
C30_PdfThenTxt ==
    /\ [](variant = Drive => files + failed_exports <= 2 * ei)
    /\ [][(variant = Drive /\ pc = "export" /\ ei' = ei + 1) =>
            LET n == Len(attempts)
            IN  IF candidate_case'.text = "badtype"
                THEN /\ attempts' = attempts
                     /\ failed_exports' = failed_exports + 1
                     /\ files' = files
                ELSE /\ Len(attempts') = n + 2
                     /\ SubSeq(attempts', 1, n) = attempts
                     /\ attempts'[n + 1].i = ei' /\ attempts'[n + 2].i = ei'
                     /\ Extension(attempts'[n + 1].file) = ".pdf"
                     /\ Extension(attempts'[n + 2].file) = ".txt"
                     /\ files' + failed_exports' = files + failed_exports + 2]_vars

\* a failed PDF upload followed by a TXT upload that worked
C30_Witness ==
    /\ variant = Drive
    /\ Len(attempts) >= 2
    /\ ~attempts[1].ok
    /\ attempts[2].ok
    /\ Extension(attempts[2].file) = ".txt"
    /\ files = 1 /\ failed_exports = 1

(***************************************************************************)
(* C28.  download_pdf never raises; it returns True only for a content     *)
(* type of application/pdf or application/octet-stream and a written file  *)
(* of at least 1000 bytes; when it returns False because of the content    *)
(* type no file was written, and when it returns False because the file is *)
(* smaller than 1000 bytes the file is gone again.                         *)
(***************************************************************************)
C28_DownloadPdfContract ==
    pc = "downloaded" =>
        LET d == download_input
            r == download_result
        IN  /\ ~r.raises
            /\ r.returned \in BOOLEAN
            /\ r.returned =>
                   /\ Lower(d.content_type) \in PdfTypes
                   /\ d.size >= MinPdfSize
                   /\ r.file
            /\ (d.request = "ok" /\ Lower(d.content_type) \notin PdfTypes) =>
                   ~r.returned /\ ~r.file
            /\ r.reason = "too_small" =>
                   ~r.returned /\ ~r.file /\ d.size < MinPdfSize

\* a PDF one byte short of the limit, written and removed again
C28_Witness ==
    /\ pc = "downloaded"
    /\ download_input.request = "ok"
    /\ download_input.content_type = "APPLICATION/PDF"
    /\ download_input.size = MinPdfSize - 1
    /\ download_result.reason = "too_small"
    /\ ~download_result.file

====
